---- MODULE Spec2Model ----
(***************************************************************************)
(* Model of the OpenAI-compatible adapter in src/main.py: the POST         *)
(* /v1/chat/completions handler, the FoundryAgentAdapter (non-streaming    *)
(* completion and the word-by-word stream emulator), the audit wrapper of  *)
(* the streaming path, and save_audit_data.                                *)
(*                                                                         *)
(* Text is a sequence of atoms.  An atom is either one whitespace          *)
(* character (" ", "\n", "\t") or a non-empty run of non-whitespace        *)
(* characters, so that str.split() and string concatenation are computed   *)
(* as Python computes them.  An optional value is a sequence of length at  *)
(* most one: <<>> is None and <<x>> is the value x.                         *)
(***************************************************************************)
EXTENDS Integers, Sequences, FiniteSets, TLC

\* ------------------------------------------------------------------ bounds
MaxMsgs == 2
MaxLen == 1
MaxThreadMsgs == 1
NumTasks == 2
MaxChunks == 1

\* -------------------------------------------------------------- text layer
Whitespace == {" ", "\n", "\t"}

None == <<>>

Some(x) == <<x>>

\* Python truthiness of an optional string: None and "" are falsy.
Truthy(opt) == opt # None /\ opt[1] # <<>>

RECURSIVE SplitAcc(_, _, _)
SplitAcc(s, cur, acc) ==
    IF s = <<>>
    THEN IF cur = <<>> THEN acc ELSE Append(acc, cur)
    ELSE IF Head(s) \in Whitespace
         THEN SplitAcc(Tail(s), <<>>, IF cur = <<>> THEN acc ELSE Append(acc, cur))
         ELSE SplitAcc(Tail(s), Append(cur, Head(s)), acc)

\* str.split(): the maximal runs of non-whitespace, in order.
split(s) == SplitAcc(s, <<>>, <<>>)

RECURSIVE join(_, _)
\* sep.join(parts)
join(sep, parts) ==
    IF parts = <<>> THEN <<>>
    ELSE IF Len(parts) = 1 THEN parts[1]
    ELSE parts[1] \o sep \o join(sep, Tail(parts))

RECURSIVE TextsUpTo(_, _)
TextsUpTo(alphabet, n) ==
    IF n = 0 THEN {<<>>}
    ELSE LET shorter == TextsUpTo(alphabet, n - 1)
         IN shorter \cup {Append(t, c) : t \in shorter, c \in alphabet}

RECURSIVE SeqsUpTo(_, _)
SeqsUpTo(S, n) ==
    IF n = 0 THEN {<<>>}
    ELSE LET shorter == SeqsUpTo(S, n - 1)
         IN shorter \cup {Append(q, x) : q \in shorter, x \in S}

\* ------------------------------------------------------- fixed strings
ApologyText ==
    <<"I", " ", "apologize,", " ", "but", " ", "I", " ", "couldn't", " ",
      "generate", " ", "a", " ", "proper", " ", "response.", " ", "Please",
      " ", "try", " ", "again.">>

DegradedPrefix ==
    <<"I", " ", "apologize,", " ", "but", " ", "an", " ", "error", " ",
      "occurred:", " ">>

FallbackText ==
    <<"I", " ", "apologize,", " ", "but", " ", "I", " ", "encountered", " ",
      "an", " ", "error", " ", "processing", " ", "your", " ", "request.",
      " ", "Please", " ", "try", " ", "again.">>

NoUserDetail == <<"No", " ", "user", " ", "message", " ", "found">>

RunFailedPrefix == <<"Agent", " ", "run", " ", "failed:", " ">>

NotInitDetail == <<"Adapter", " ", "not", " ", "initialized">>

ErrorPrefix == <<"Error:", " ">>

\* ------------------------------------------------------------ input sets
Models == {"foundry-agent-model"}

MsgChoices ==
    { [role |-> "system", content |-> <<"s">>],
      [role |-> "user", content |-> <<>>],
      [role |-> "user", content |-> <<"2+2?">>],
      [role |-> "user", content |-> <<"a", " ", "b">>] }

Requests ==
    [model : Models, messages : SeqsUpTo(MsgChoices, MaxMsgs), stream : BOOLEAN]

AnswerAlphabet == {"4", " ", "\n"}

AnswerTexts == TextsUpTo(AnswerAlphabet, MaxLen)

ThreadMsgChoices ==
    { [role |-> "user", text_messages |-> <<[value |-> <<"q">>]>>],
      [role |-> "assistant", text_messages |-> <<>>],
      [role |-> "assistant", text_messages |-> <<[value |-> <<"4">>], [value |-> <<"5">>]>>] }
    \cup { [role |-> "assistant", text_messages |-> <<[value |-> t]>>] : t \in AnswerTexts }

ThreadMsgLists == SeqsUpTo(ThreadMsgChoices, MaxThreadMsgs)

ExcMsgs == { <<"timeout">> }

RunStatuses == {"completed", "failed", "expired"}

RunErrors == { <<"rate_limit">> }

\* --------------------------------------------------- response data model
Message(role, content) == [role |-> role, content |-> content]

Choice(index, message, finish_reason) ==
    [index |-> index, message |-> message, finish_reason |-> finish_reason]

Usage(prompt_tokens, completion_tokens, total_tokens) ==
    [prompt_tokens |-> prompt_tokens,
     completion_tokens |-> completion_tokens,
     total_tokens |-> total_tokens]

ChatCompletionResponse(id, created, model, choices, usage) ==
    [id |-> id, object |-> "chat.completion", created |-> created,
     model |-> model, choices |-> choices, usage |-> usage]

Delta(role, content) == [role |-> role, content |-> content]

StreamChoice(index, delta, finish_reason) ==
    [index |-> index, delta |-> delta, finish_reason |-> finish_reason]

ChatCompletionStreamResponse(id, created, model, choices) ==
    [id |-> id, object |-> "chat.completion.chunk", created |-> created,
     model |-> model, choices |-> choices]

HTTPException(status_code, detail) ==
    [status_code |-> status_code, detail |-> detail]

\* str(e) of an HTTPException: "<status_code>: <detail>"
StatusAtom(status_code) == IF status_code = 400 THEN "400:" ELSE "500:"

ExcStr(e) == <<StatusAtom(e.status_code), " ">> \o e.detail

\* ------------------------------------ FoundryAgentAdapter.create_chat_completion
RECURSIVE LastUserMessage(_)
\* for msg in reversed(request.messages): first one with role == "user"
LastUserMessage(messages) ==
    IF messages = <<>> THEN None
    ELSE IF messages[Len(messages)].role = "user"
         THEN Some(messages[Len(messages)].content)
         ELSE LastUserMessage(SubSeq(messages, 1, Len(messages) - 1))

RECURSIVE PartValues(_)
\* the text values of one message's text_messages, in order
PartValues(parts) ==
    IF parts = <<>> THEN <<>>
    ELSE <<Head(parts).value>> \o PartValues(Tail(parts))

RECURSIVE AssistantMessages(_)
\* assistant_messages: the text values of every assistant-authored message
AssistantMessages(messages) ==
    IF messages = <<>> THEN <<>>
    ELSE (IF Head(messages).role = "assistant" /\ Head(messages).text_messages # <<>>
          THEN PartValues(Head(messages).text_messages)
          ELSE <<>>) \o AssistantMessages(Tail(messages))

AssistantResponse(messages) ==
    IF AssistantMessages(messages) # <<>>
    THEN join(<<"\n">>, AssistantMessages(messages))
    ELSE ApologyText

\* Mutant: the prompt is counted in characters, not in words.
PromptTokensChars(user_text) == Len(user_text)

PromptTokens(user_text) == IF user_text # <<>> THEN Len(split(user_text)) ELSE 0

CompletionTokens(answer) == IF answer # <<>> THEN Len(split(answer)) ELSE 0

\* Mutant: the total leaves the completion tokens out.
TotalTokensPromptOnly(prompt_tokens, completion_tokens) == prompt_tokens

TotalTokens(prompt_tokens, completion_tokens) == prompt_tokens + completion_tokens

CompletionResponse(req, user_text, answer, uuid, ts) ==
    ChatCompletionResponse(
        [prefix |-> "chatcmpl-", uuid |-> uuid], ts, req.model,
        <<Choice(0, Message("assistant", answer), "stop")>>,
        Usage(PromptTokens(user_text), CompletionTokens(answer),
              TotalTokens(PromptTokens(user_text), CompletionTokens(answer))))

\* Mutant: the degraded response reports no completion tokens.
DegradedUsageZero == Usage(0, 0, 0)

DegradedUsage == Usage(0, 10, 10)

DegradedResponse(req, msg, uuid, ts) ==
    ChatCompletionResponse(
        [prefix |-> "chatcmpl-error-", uuid |-> uuid], ts, req.model,
        <<Choice(0, Message("assistant", DegradedPrefix \o msg), "stop")>>,
        DegradedUsage)

\* ------------------------------------------------ handler fallback response
FallbackUsage == Usage(10, 20, 30)

FallbackResponse(req, uuid, ts) ==
    ChatCompletionResponse(
        [prefix |-> "chatcmpl-failsafe-", uuid |-> uuid], ts, req.model,
        <<Choice(0, Message("assistant", FallbackText), "stop")>>,
        FallbackUsage)

\* ----------------------------- FoundryAgentAdapter.create_streaming_response
\* One server-sent event: "data: <json>\n\n", or the sentinel "data: [DONE]\n\n".
SSE(chunk) == [sentinel |-> FALSE, body |-> Some(chunk)]

DoneEvent == [sentinel |-> TRUE, body |-> None]

FirstChunk(request_id, created, model) ==
    ChatCompletionStreamResponse(request_id, created, model,
        <<StreamChoice(0, Delta(Some("assistant"), Some(<<>>)), None)>>)

ChunkContent(words, i) ==
    words[i] \o (IF i < Len(words) THEN <<" ">> ELSE <<>>)

\* Mutant: every word chunk is marked as the last one.
WordChunkStop(request_id, created, model, words, i) ==
    ChatCompletionStreamResponse(request_id, created, model,
        <<StreamChoice(0, Delta(None, Some(ChunkContent(words, i))), Some("stop"))>>)

\* Mutant: every word chunk reads the clock again for its created field.
WordChunkOwnStamp(request_id, created, model, words, i) ==
    ChatCompletionStreamResponse(request_id, created + i, model,
        <<StreamChoice(0, Delta(None, Some(ChunkContent(words, i))), None)>>)

WordChunk(request_id, created, model, words, i) ==
    ChatCompletionStreamResponse(request_id, created, model,
        <<StreamChoice(0, Delta(None, Some(ChunkContent(words, i))), None)>>)

\* Mutant: the closing chunk carries no finish_reason.
FinalChunkNoStop(request_id, created, model) ==
    ChatCompletionStreamResponse(request_id, created, model,
        <<StreamChoice(0, Delta(None, None), None)>>)

FinalChunk(request_id, created, model) ==
    ChatCompletionStreamResponse(request_id, created, model,
        <<StreamChoice(0, Delta(None, None), Some("stop"))>>)

\* Mutant: the error chunk carries the bare message.
ErrorChunkBareMessage(request_id, created, model, msg) ==
    ChatCompletionStreamResponse(request_id, created, model,
        <<StreamChoice(0, Delta(Some("assistant"), Some(msg)), Some("stop"))>>)

ErrorChunk(request_id, created, model, msg) ==
    ChatCompletionStreamResponse(request_id, created, model,
        <<StreamChoice(0, Delta(Some("assistant"), Some(ErrorPrefix \o msg)), Some("stop"))>>)

\* ------------------------------------------------------ streaming_with_audit
\* The text the wrapper extracts from one event for collected_content.
DeltaContent(event) ==
    IF ~event.sentinel /\ event.body # None /\ event.body[1].choices # <<>>
       /\ Truthy(event.body[1].choices[1].delta.content)
    THEN event.body[1].choices[1].delta.content[1]
    ELSE <<>>

\* ------------------------------------------------------------ save_audit_data
\* Mutant: a failed write raises out of save_audit_data.
SaveOutcomeRaises(ok) == IF ok THEN "saved" ELSE "raised"

\* How one call ends: the record is written and its id returned (l.98-104),
\* or the write fails, the exception is logged and None is returned
\* (l.106-108).
SaveOutcome(ok) == IF ok THEN "saved" ELSE "null"

AuditRecord(request_type, request_data, response_data, uuid, ok) ==
    [audit_id |-> uuid, request_type |-> request_type,
     request |-> request_data, response |-> response_data,
     outcome |-> SaveOutcome(ok)]

\* One call of save_audit_data, appended to the log of calls.
SaveAudit(log, request_type, request_data, response_data, uuid, ok) ==
    Append(log, AuditRecord(request_type, request_data, response_data, uuid, ok))

\* An exception escapes the handler or the generator: the framework answers
\* (or would answer) with its plain 500 page.
InternalErrorDetail == <<"Internal", " ", "Server", " ", "Error">>

\* ------------------------------------------------------------------- state
VARIABLES
    adapter,             \* TRUE once startup_event has built the shared adapter
    pc,                  \* position of the request's task
    request,             \* the decoded ChatCompletionRequest
    calls,               \* backend calls made so far, in order
    thread,              \* id of the thread created for this request (0: none)
    last_user_message,   \* optional text
    run,                 \* the run returned by create_and_process
    messages,            \* the thread messages listed after the run
    result,              \* what adapter.create_chat_completion returned or raised
    gen,                 \* locals of create_streaming_response
    collected_chunks,    \* streaming_with_audit: events collected
    collected_content,   \* streaming_with_audit: content extracted
    forwarded,           \* events handed to the transport, in order
    httpStatus,          \* status of the HTTP response (0: none yet)
    httpBody,            \* body of the HTTP response
    audits,              \* calls of save_audit_data, in order
    uuids,               \* number of uuid4() values drawn
    now,                 \* the clock read by datetime.now()
    tasks,               \* event loop: one task per inbound connection
    running,             \* event loop: the task that holds the loop's thread (0: none)
    backend_threads,     \* backend: number of threads created so far
    backend_log,         \* backend: calls received, in order, with the calling task
    audit_log            \* audit records written, in order, with the task

vars ==
    <<adapter, pc, request, calls, thread, last_user_message, run, messages,
      result, gen, collected_chunks, collected_content, forwarded, httpStatus,
      httpBody, audits, uuids, now, tasks, running, backend_threads,
      backend_log, audit_log>>

loopVars == <<tasks, running, backend_threads, backend_log, audit_log>>

NoRequest == [model |-> "", messages |-> <<>>, stream |-> FALSE]

NoRun == [status |-> "", last_error |-> <<>>]

NoResult == [kind |-> "none"]

NoGen == [request_id |-> 0, created |-> 0, content |-> <<>>, i |-> 0]

NoBody == [kind |-> "none"]

Tasks == 1..NumTasks

NoTask == [kind |-> "none", pc |-> "none", thread |-> 0, left |-> 0,
           sent |-> 0, answer |-> [status |-> 0]]

Init ==
    /\ adapter = FALSE
    /\ pc = "idle"
    /\ request = NoRequest
    /\ calls = <<>>
    /\ thread = 0
    /\ last_user_message = None
    /\ run = NoRun
    /\ messages = <<>>
    /\ result = NoResult
    /\ gen = NoGen
    /\ collected_chunks = <<>>
    /\ collected_content = <<>>
    /\ forwarded = <<>>
    /\ httpStatus = 0
    /\ httpBody = NoBody
    /\ audits = <<>>
    /\ uuids = 0
    /\ now = 0
    /\ tasks = [t \in Tasks |-> NoTask]
    /\ running = 0
    /\ backend_threads = 0
    /\ backend_log = <<>>
    /\ audit_log = <<>>

adapterVars == <<calls, thread, last_user_message, run, messages, result>>

streamVars == <<gen, collected_chunks, collected_content, forwarded>>

httpVars == <<httpStatus, httpBody>>

\* ----------------------------------------------------------------- startup
startup_event ==
    /\ pc = "idle"
    /\ ~adapter
    /\ adapter' = TRUE
    /\ UNCHANGED <<loopVars, pc, request, adapterVars, streamVars, httpVars, audits, uuids, now>>

\* A POST /v1/chat/completions request arrives and is decoded.
Receive(req) ==
    /\ pc = "idle"
    /\ request' = req
    /\ pc' = "handler"
    /\ UNCHANGED <<loopVars, adapter, adapterVars, streamVars, httpVars, audits, uuids, now>>

\* ----------------------------------------------- handler: entry (l.427-499)
HandlerNotInitialized ==
    /\ pc = "handler"
    /\ ~adapter
    /\ httpStatus' = 500
    /\ httpBody' = [kind |-> "error", detail |-> NotInitDetail]
    /\ pc' = "done"
    /\ UNCHANGED <<loopVars, adapter, request, adapterVars, streamVars, audits, uuids, now>>

\* stream=true: a StreamingResponse over streaming_with_audit() is returned.
HandlerStream ==
    /\ pc = "handler"
    /\ adapter
    /\ request.stream
    /\ httpStatus' = 200
    /\ httpBody' = [kind |-> "event-stream"]
    /\ pc' = "gen_start"
    /\ UNCHANGED <<loopVars, adapter, request, adapterVars, streamVars, audits, uuids, now>>

HandlerNonStream ==
    /\ pc = "handler"
    /\ adapter
    /\ ~request.stream
    /\ pc' = "a_thread"
    /\ UNCHANGED <<loopVars, adapter, request, adapterVars, streamVars, httpVars, audits, uuids, now>>

\* create_streaming_response starts: request_id and created are fixed, then
\* the non-streaming completion is called.
StreamStart ==
    /\ pc = "gen_start"
    /\ gen' = [gen EXCEPT !.request_id = uuids + 1, !.created = now]
    /\ uuids' = uuids + 1
    /\ pc' = "a_thread"
    /\ UNCHANGED <<loopVars, adapter, request, adapterVars, collected_chunks,
                   collected_content, forwarded, httpVars, audits, now>>

\* ------------------------------ adapter.create_chat_completion (l.295-415)
ReturnPc == IF request.stream THEN "g_result" ELSE "h_result"

BackendCall(op) ==
    [op |-> op, thread_id |-> thread,
     content |-> IF op = "post_message" THEN last_user_message ELSE None]

CreateThread ==
    /\ pc = "a_thread"
    /\ thread' = 1
    /\ calls' = Append(calls, [op |-> "create_thread", thread_id |-> 1,
                                content |-> None])
    /\ pc' = "a_find"
    /\ UNCHANGED <<loopVars, adapter, request, last_user_message, run, messages, result,
                   streamVars, httpVars, audits, uuids, now>>

FindLastUserMessage ==
    /\ pc = "a_find"
    /\ last_user_message' = LastUserMessage(request.messages)
    /\ IF ~Truthy(LastUserMessage(request.messages))
       THEN /\ result' = [kind |-> "http_exc", exc |-> HTTPException(400, NoUserDetail)]
            /\ pc' = ReturnPc
       ELSE /\ result' = result
            /\ pc' = "a_post"
    /\ UNCHANGED <<loopVars, adapter, request, calls, thread, run, messages,
                   streamVars, httpVars, audits, uuids, now>>

PostMessage ==
    /\ pc = "a_post"
    /\ calls' = Append(calls, BackendCall("post_message"))
    /\ pc' = "a_run"
    /\ UNCHANGED <<loopVars, adapter, request, thread, last_user_message, run, messages,
                   result, streamVars, httpVars, audits, uuids, now>>

\* Mutant: the run's status is not looked at before the messages are listed.
RunAgentThenList(status, err) ==
    /\ pc = "a_run"
    /\ calls' = Append(calls, BackendCall("run_agent"))
    /\ run' = [status |-> status, last_error |-> err]
    /\ now' = now + 1
    /\ result' = result
    /\ pc' = "a_list"
    /\ UNCHANGED <<loopVars, adapter, request, thread, last_user_message, messages,
                   streamVars, httpVars, audits, uuids>>

RunAgent(status, err) ==
    /\ pc = "a_run"
    /\ calls' = Append(calls, BackendCall("run_agent"))
    /\ run' = [status |-> status, last_error |-> err]
    /\ now' = now + 1
    /\ IF status = "failed"
       THEN /\ result' = [kind |-> "http_exc",
                          exc |-> HTTPException(500, RunFailedPrefix \o err)]
            /\ pc' = ReturnPc
       ELSE /\ result' = result
            /\ pc' = "a_list"
    /\ UNCHANGED <<loopVars, adapter, request, thread, last_user_message, messages,
                   streamVars, httpVars, audits, uuids>>

ListMessages(msgs) ==
    /\ pc = "a_list"
    /\ calls' = Append(calls, BackendCall("list_messages"))
    /\ messages' = msgs
    /\ result' = [kind |-> "response", degraded |-> FALSE,
                  response |-> CompletionResponse(request, last_user_message[1],
                                   AssistantResponse(msgs), uuids + 1, now)]
    /\ uuids' = uuids + 1
    /\ pc' = ReturnPc
    /\ UNCHANGED <<loopVars, adapter, request, thread, last_user_message, run,
                   streamVars, httpVars, audits, now>>

CallAt(p) ==
    CASE p = "a_thread" -> "create_thread"
      [] p = "a_post" -> "post_message"
      [] p = "a_run" -> "run_agent"
      [] p = "a_list" -> "list_messages"

\* A backend call raises an exception that is not an HTTPException.
AdapterUnexpectedError(msg) ==
    /\ pc \in {"a_thread", "a_post", "a_run", "a_list"}
    /\ calls' = Append(calls, BackendCall(CallAt(pc)))
    /\ result' = [kind |-> "response", degraded |-> TRUE,
                  response |-> DegradedResponse(request, msg, uuids + 1, now)]
    /\ uuids' = uuids + 1
    /\ pc' = ReturnPc
    /\ UNCHANGED <<loopVars, adapter, request, thread, last_user_message, run, messages,
                   streamVars, httpVars, audits, now>>

\* ------------------------------------- handler: non-streaming (l.494-573)
NoChoicesDetail == <<"Response", " ", "contained", " ", "no", " ", "choices">>

\* Mutant: the handler has no clause for HTTPException, so the general clause
\* answers it with the fixed fallback and audits it.
HandlerReraiseFallback ==
    /\ pc = "h_result"
    /\ result.kind = "http_exc"
    /\ audits' = SaveAudit(audits, "chat_completion_error", request,
                           [response |-> FallbackResponse(request, uuids + 1, now),
                            error |-> Some(ExcStr(result.exc))],
                           uuids + 2, TRUE)
    /\ uuids' = uuids + 2
    /\ httpStatus' = 200
    /\ httpBody' = [kind |-> "json",
                    response |-> FallbackResponse(request, uuids + 1, now)]
    /\ pc' = "done"
    /\ UNCHANGED <<loopVars, adapter, request, adapterVars, streamVars, now>>

\* except HTTPException: raise  -- the framework answers with the exception's
\* status code and detail; nothing is audited.
HandlerReraise ==
    /\ pc = "h_result"
    /\ result.kind = "http_exc"
    /\ httpStatus' = result.exc.status_code
    /\ httpBody' = [kind |-> "error", detail |-> result.exc.detail]
    /\ pc' = "done"
    /\ UNCHANGED <<loopVars, adapter, request, adapterVars, streamVars, audits, uuids, now>>

HandlerReturn(ok) ==
    /\ pc = "h_result"
    /\ result.kind = "response"
    /\ IF result.response.choices = <<>>
       THEN /\ httpStatus' = 500
            /\ httpBody' = [kind |-> "error", detail |-> NoChoicesDetail]
            /\ UNCHANGED <<audits, uuids>>
       ELSE /\ audits' = SaveAudit(audits, "chat_completion_non_streaming", request,
                                   [response |-> result.response, error |-> None],
                                   uuids + 1, ok)
            /\ uuids' = uuids + 1
            /\ IF SaveOutcome(ok) = "raised"
               THEN /\ httpStatus' = 500
                    /\ httpBody' = [kind |-> "error", detail |-> InternalErrorDetail]
               ELSE /\ httpStatus' = 200
                    /\ httpBody' = [kind |-> "json", response |-> result.response]
    /\ pc' = "done"
    /\ UNCHANGED <<loopVars, adapter, request, adapterVars, streamVars, now>>

HandlerFaults == {"dump", "render"}

\* An exception that is not an HTTPException is raised by the handler's own
\* try block after the adapter returned: at response.model_dump() ("dump",
\* before the audit of l.512) or while the JSONResponse is built ("render",
\* after it).  The except clause of l.530 answers with the fixed fallback.
HandlerFallback(fault, msg, ok) ==
    /\ pc = "h_result"
    /\ result.kind = "response"
    /\ result.response.choices # <<>>
    /\ LET audited == IF fault = "render"
                      THEN SaveAudit(audits, "chat_completion_non_streaming", request,
                                     [response |-> result.response, error |-> None],
                                     uuids + 1, ok)
                      ELSE audits
           drawn == IF fault = "render" THEN uuids + 1 ELSE uuids
           fallback_response == FallbackResponse(request, drawn + 1, now)
       IN /\ audits' = SaveAudit(audited, "chat_completion_error", request,
                                 [response |-> fallback_response, error |-> Some(msg)],
                                 drawn + 2, ok)
          /\ uuids' = drawn + 2
          /\ IF SaveOutcome(ok) = "raised"
             THEN /\ httpStatus' = 500
                  /\ httpBody' = [kind |-> "error", detail |-> InternalErrorDetail]
             ELSE /\ httpStatus' = 200
                  /\ httpBody' = [kind |-> "json", response |-> fallback_response]
    /\ pc' = "done"
    /\ UNCHANGED <<loopVars, adapter, request, adapterVars, streamVars, now>>

\* --------------------- create_streaming_response + streaming_with_audit
\* One event leaves the emulator: the wrapper appends it to collected_chunks,
\* adds its delta content to collected_content and yields it to the transport.
\* Mutant: the terminator is yielded but not collected.
ForwardChunksOnly(event) ==
    /\ collected_chunks' = IF event.sentinel THEN collected_chunks
                           ELSE Append(collected_chunks, event)
    /\ collected_content' = collected_content \o DeltaContent(event)
    /\ forwarded' = Append(forwarded, event)

Forward(event) ==
    /\ collected_chunks' = Append(collected_chunks, event)
    /\ collected_content' = collected_content \o DeltaContent(event)
    /\ forwarded' = Append(forwarded, event)

Words == split(gen.content)

EmitFirstChunk ==
    /\ pc = "g_result"
    /\ result.kind = "response"
    /\ gen' = [gen EXCEPT !.content = result.response.choices[1].message.content,
                          !.i = 1]
    /\ Forward(SSE(FirstChunk(gen.request_id, gen.created, request.model)))
    /\ pc' = "g_words"
    /\ UNCHANGED <<loopVars, adapter, request, adapterVars, httpVars, audits, uuids, now>>

EmitWordChunk ==
    /\ pc = "g_words"
    /\ gen.i <= Len(Words)
    /\ Forward(SSE(WordChunk(gen.request_id, gen.created, request.model, Words, gen.i)))
    /\ gen' = [gen EXCEPT !.i = gen.i + 1]
    /\ now' = now + 1
    /\ UNCHANGED <<loopVars, adapter, pc, request, adapterVars, httpVars, audits, uuids>>

EmitFinalChunk ==
    /\ pc = "g_words"
    /\ gen.i > Len(Words)
    /\ Forward(SSE(FinalChunk(gen.request_id, gen.created, request.model)))
    /\ pc' = "g_marker"
    /\ UNCHANGED <<loopVars, adapter, request, adapterVars, gen, httpVars, audits, uuids, now>>

EmitDone ==
    /\ pc = "g_marker"
    /\ Forward(DoneEvent)
    /\ pc' = "g_end"
    /\ UNCHANGED <<loopVars, adapter, request, adapterVars, gen, httpVars, audits, uuids, now>>

\* except Exception as e (l.277): the completion call raised.
EmitErrorChunk ==
    /\ pc = "g_result"
    /\ result.kind = "http_exc"
    /\ Forward(SSE(ErrorChunk(gen.request_id, gen.created, request.model,
                              ExcStr(result.exc))))
    /\ pc' = "g_err_marker"
    /\ UNCHANGED <<loopVars, adapter, request, adapterVars, gen, httpVars, audits, uuids, now>>

EmitErrorDone ==
    /\ pc = "g_err_marker"
    /\ Forward(DoneEvent)
    /\ pc' = "g_end"
    /\ UNCHANGED <<loopVars, adapter, request, adapterVars, gen, httpVars, audits, uuids, now>>

\* The emulator is exhausted: the wrapper saves the audit record (l.470-476).
StreamAudit(ok) ==
    /\ pc = "g_end"
    /\ audits' = SaveAudit(audits, "chat_completion_streaming", request,
                           [chunks |-> collected_chunks,
                            full_content |-> collected_content,
                            chunk_count |-> Len(collected_chunks)],
                           uuids + 1, ok)
    /\ uuids' = uuids + 1
    /\ pc' = IF SaveOutcome(ok) = "raised" THEN "aborted" ELSE "done"
    /\ UNCHANGED <<loopVars, adapter, request, adapterVars, streamVars, httpVars, now>>

Suspended == {"g_words", "g_marker", "g_err_marker"}

\* The inbound connection closes while the generator is suspended between
\* two events: CancelledError / GeneratorExit is raised at the suspension
\* point.  Neither is an Exception, so no except clause of the emulator or
\* of the wrapper runs, and the code after the wrapper's loop is skipped.
Cancel ==
    /\ pc \in Suspended
    /\ pc' = "cancelled"
    /\ UNCHANGED <<loopVars, adapter, request, adapterVars, streamVars, httpVars, audits, uuids, now>>

\* Mutant: the wrapper records the error and ends the stream without raising.
WrapperErrorSwallowed(msg, ok) ==
    /\ pc \in Suspended
    /\ audits' = SaveAudit(audits, "chat_completion_streaming_error", request,
                           [error |-> msg, chunks_before_error |-> collected_chunks],
                           uuids + 1, ok)
    /\ uuids' = uuids + 1
    /\ pc' = "done"
    /\ UNCHANGED <<loopVars, adapter, request, adapterVars, streamVars, httpVars, now>>

\* An Exception is raised inside the wrapper's try block after some events
\* were forwarded (l.478-486): error audit, then the bare raise lets the same
\* exception leave the generator, and the transport cuts the response that
\* was already started.
WrapperError(msg, ok) ==
    /\ pc \in Suspended
    /\ audits' = SaveAudit(audits, "chat_completion_streaming_error", request,
                           [error |-> msg, chunks_before_error |-> collected_chunks],
                           uuids + 1, ok)
    /\ uuids' = uuids + 1
    /\ httpBody' = [kind |-> "truncated-stream", raised |-> msg]
    /\ pc' = "aborted"
    /\ UNCHANGED <<loopVars, adapter, request, adapterVars, streamVars, httpStatus, now>>

\* ------------------------------------------------------------ specification
Next ==
    \/ startup_event
    \/ \E req \in Requests : Receive(req)
    \/ HandlerNotInitialized
    \/ HandlerStream
    \/ HandlerNonStream
    \/ StreamStart
    \/ CreateThread
    \/ FindLastUserMessage
    \/ PostMessage
    \/ \E status \in RunStatuses, err \in RunErrors : RunAgent(status, err)
    \/ \E msgs \in ThreadMsgLists : ListMessages(msgs)
    \/ \E msg \in ExcMsgs : AdapterUnexpectedError(msg)
    \/ HandlerReraise
    \/ \E ok \in BOOLEAN : HandlerReturn(ok)
    \/ \E fault \in HandlerFaults, msg \in ExcMsgs, ok \in BOOLEAN :
          HandlerFallback(fault, msg, ok)
    \/ EmitFirstChunk
    \/ EmitWordChunk
    \/ EmitFinalChunk
    \/ EmitDone
    \/ EmitErrorChunk
    \/ EmitErrorDone
    \/ \E ok \in BOOLEAN : StreamAudit(ok)
    \/ Cancel
    \/ \E msg \in ExcMsgs, ok \in BOOLEAN : WrapperError(msg, ok)

Spec == Init /\ [][Next]_vars

\* ================================================================== claims
HasUser(req) == \E i \in 1..Len(req.messages) : req.messages[i].role = "user"

\* A stream=true response whose generator ran to its end.
StreamCompleted == request.stream /\ pc = "done" /\ httpBody.kind = "event-stream"

\* The chunk carried by the i-th forwarded event (not the terminator).
ChunkChoice(i) == forwarded[i].body[1].choices[1]

RECURSIVE ConcatFragments(_)
\* What a client obtains by appending every non-empty delta content in order.
ConcatFragments(events) ==
    IF events = <<>> THEN <<>>
    ELSE DeltaContent(Head(events)) \o ConcatFragments(Tail(events))

\* C1: a request with a user message whose backend run ends "failed" is
\* answered with HTTP 200 and an assistant message with non-empty content and
\* finish_reason "stop", never with a 5xx status.
C1_FailedRunAnswered200 ==
    (pc = "done" /\ HasUser(request) /\ run.status = "failed") =>
        /\ httpStatus = 200
        /\ request.stream =>
              \E i \in 1..Len(forwarded) :
                  /\ ~forwarded[i].sentinel
                  /\ ChunkChoice(i).delta.role = Some("assistant")
                  /\ Truthy(ChunkChoice(i).delta.content)
                  /\ ChunkChoice(i).finish_reason = Some("stop")
        /\ ~request.stream =>
              /\ httpBody.kind = "json"
              /\ httpBody.response.choices[1].message.role = "assistant"
              /\ httpBody.response.choices[1].message.content # <<>>
              /\ httpBody.response.choices[1].finish_reason = "stop"

\* The request_type a finished request's single audit record should carry.
ExpectedTag ==
    IF request.stream
    THEN IF pc = "aborted" THEN "chat_completion_streaming_error"
         ELSE "chat_completion_streaming"
    ELSE IF httpStatus = 200 /\ httpBody.kind = "json"
              /\ httpBody.response.id.prefix # "chatcmpl-failsafe-"
         THEN "chat_completion_non_streaming"
         ELSE "chat_completion_error"

\* C2: every handled request, whatever its outcome, has exactly one call of
\* save_audit_data by the time its handling ends, and the record's
\* request_type matches the outcome.
C2_ExactlyOneAudit ==
    pc \in {"done", "aborted"} =>
        /\ Len(audits) = 1
        /\ audits[1].request_type = ExpectedTag

\* C3: concatenating the content fragments of a completed stream reproduces
\* exactly the message content the non-streaming completion returns.
C3_StreamReproducesContent ==
    (StreamCompleted /\ result.kind = "response") =>
        ConcatFragments(forwarded) = result.response.choices[1].message.content

RoleOnlyFirst(i) ==
    /\ ~forwarded[i].sentinel
    /\ ChunkChoice(i).delta.role # None
    /\ ~Truthy(ChunkChoice(i).delta.content)
    /\ ChunkChoice(i).finish_reason = None

ContentOnly(i) ==
    /\ ~forwarded[i].sentinel
    /\ ChunkChoice(i).delta.role = None
    /\ Truthy(ChunkChoice(i).delta.content)
    /\ ChunkChoice(i).finish_reason = None

StopChunk(i) ==
    /\ ~forwarded[i].sentinel
    /\ ChunkChoice(i).finish_reason = Some("stop")

\* role-only delta, content-only chunks, stop chunk, terminator
NormalOrder ==
    /\ Len(forwarded) >= 3
    /\ RoleOnlyFirst(1)
    /\ \A i \in 2..(Len(forwarded) - 2) : ContentOnly(i)
    /\ StopChunk(Len(forwarded) - 1)
    /\ forwarded[Len(forwarded)] = DoneEvent

\* one chunk announcing the role, carrying text and finish_reason "stop",
\* then the terminator
ErrorOrder ==
    /\ Len(forwarded) = 2
    /\ StopChunk(1)
    /\ ChunkChoice(1).delta.role = Some("assistant")
    /\ Truthy(ChunkChoice(1).delta.content)
    /\ forwarded[2] = DoneEvent

NothingAfterDone == \A i \in 1..(Len(forwarded) - 1) : ~forwarded[i].sentinel

\* C4 (as stated): every stream consumed to the end, whether the completion
\* succeeds or raises, starts with a role-only delta without text, continues
\* with content-only chunks, then a stop chunk, then the terminator as the
\* last event.
C4_StreamOrder ==
    /\ NothingAfterDone
    /\ StreamCompleted => NormalOrder

\* C4 (amended): a stream consumed to the end has the order role-only delta,
\* content-only chunks, stop chunk, terminator when the completion succeeds;
\* when the completion raises it is one chunk that announces the role,
\* carries the error text and has finish_reason "stop", then the terminator.
\* In both cases the terminator is last and nothing follows it.
C4_StreamOrderAmended ==
    /\ NothingAfterDone
    /\ StreamCompleted =>
          IF result.kind = "response" THEN NormalOrder ELSE ErrorOrder

C4_Witness ==
    /\ StreamCompleted
    /\ result.kind = "response"
    /\ Len(forwarded) >= 5

\* C5: a request without any role=user message is answered with HTTP 400,
\* for stream=false and stream=true alike.
C5_NoUserYields400 ==
    (pc = "done" /\ adapter /\ ~HasUser(request)) => httpStatus = 400

\* C6: a request without any role=user message causes no backend call.
C6_NoUserNoBackendCall ==
    (pc # "idle" /\ ~HasUser(request)) => calls = <<>>

\* C7: when the connection closes between two chunks of a stream, no further
\* chunk is emitted and an audit record holding the chunks already sent is
\* written.
C7_CancelledStreamAudited ==
    pc = "cancelled" =>
        /\ Len(audits) = 1
        /\ audits[1].request_type \in {"chat_completion_streaming",
                                       "chat_completion_streaming_error"}
        /\ IF audits[1].request_type = "chat_completion_streaming"
           THEN audits[1].response.chunks = forwarded
           ELSE audits[1].response.chunks_before_error = forwarded

OneStopChoice(response) ==
    /\ Len(response.choices) = 1
    /\ response.choices[1].index = 0
    /\ response.choices[1].finish_reason = "stop"

\* C8: every ChatResponse returned (normal, adapter-degraded, handler
\* fallback) has exactly one choice, with index 0 and finish_reason "stop";
\* every completed stream has exactly one chunk with finish_reason "stop" and
\* all its other chunks have no finish_reason.
C8_ExactlyOneStop ==
    /\ result.kind = "response" => OneStopChoice(result.response)
    /\ httpBody.kind = "json" => OneStopChoice(httpBody.response)
    /\ StreamCompleted =>
          \E k \in 1..Len(forwarded) :
              /\ StopChunk(k)
              /\ \A j \in 1..Len(forwarded) :
                    (j # k /\ ~forwarded[j].sentinel) =>
                        ChunkChoice(j).finish_reason = None

C8_Witness ==
    /\ StreamCompleted
    /\ result.kind = "response"
    /\ OneStopChoice(result.response)
    /\ Len(forwarded) >= 4

UsageAddsUp(response) ==
    response.usage.total_tokens =
        response.usage.prompt_tokens + response.usage.completion_tokens

\* C9: in every ChatResponse the service can return (word-count path,
\* adapter-degraded, handler fallback) usage.total_tokens equals
\* usage.prompt_tokens + usage.completion_tokens.
C9_TotalIsSum ==
    /\ result.kind = "response" => UsageAddsUp(result.response)
    /\ httpBody.kind = "json" => UsageAddsUp(httpBody.response)

C9_Witness ==
    /\ pc = "done"
    /\ httpBody.kind = "json"
    /\ httpBody.response.usage.prompt_tokens = 2
    /\ httpBody.response.usage.completion_tokens = 2

\* C10: when the completion call raises during a stream=true request, the
\* emulator emits exactly one chunk, whose content is "Error: <message>" and
\* whose finish_reason is "stop", then the terminator and nothing else.
C10_ErrorStream ==
    (request.stream /\ result.kind = "http_exc") =>
        /\ pc \in {"g_result", "g_err_marker", "g_end", "done", "cancelled", "aborted"}
        /\ pc = "g_err_marker" => Len(forwarded) = 1
        /\ pc \in {"g_end", "done"} =>
              /\ Len(forwarded) = 2
              /\ forwarded[2].sentinel
        /\ Len(forwarded) >= 1 =>
              /\ ~forwarded[1].sentinel
              /\ Len(forwarded[1].body[1].choices) = 1
              /\ ChunkChoice(1).delta.content =
                    Some(<<"Error:", " ">> \o ExcStr(result.exc))
              /\ ChunkChoice(1).finish_reason = Some("stop")

C10_Witness ==
    /\ StreamCompleted
    /\ result.kind = "http_exc"
    /\ run.status = "failed"
    /\ Len(forwarded) = 2


\* The handler answered with its own fixed fallback response (l.537-553).
FallbackAnswered ==
    httpBody.kind = "json" /\ httpBody.response.id.prefix = "chatcmpl-failsafe-"

C12_AnswerNeverEmpty ==
    result.kind = "response" =>
        split(result.response.choices[1].message.content) # <<>>


\* The outcome a non-streaming audit record describes, read off the id of the
\* response it holds: real assistant content, the adapter's degraded
\* response, or the handler's fixed fallback.
OutcomeOf(audit) ==
    CASE audit.response.response.id.prefix = "chatcmpl-" -> "content"
      [] audit.response.response.id.prefix = "chatcmpl-error-" -> "degraded"
      [] OTHER -> "fallback"

HandlerTags == {"chat_completion_non_streaming", "chat_completion_error"}

\* The request_type under which the handler audits real assistant content
\* (the save_audit_data call of l.512).
ContentTag == "chat_completion_non_streaming"

\* C13: the three outcomes of the non-streaming handler (real assistant
\* content, adapter-degraded response, fixed fallback) are audited under
\* pairwise distinct request_type tags: a record that carries the tag of real
\* content describes real content, and a degraded record and a fallback
\* record never carry the same tag.
C13_DistinctOutcomeTags ==
    \A i \in 1..Len(audits) :
        audits[i].request_type \in HandlerTags =>
            /\ audits[i].request_type = ContentTag => OutcomeOf(audits[i]) = "content"
            /\ \A j \in 1..Len(audits) :
                  (audits[j].request_type \in HandlerTags
                   /\ OutcomeOf(audits[i]) # OutcomeOf(audits[j])) =>
                      audits[i].request_type # audits[j].request_type


\* C16: a failed audit write never fails or changes the request's outcome:
\* save_audit_data returns None instead of raising, a non-streaming request
\* whose adapter returned a response is answered 200 with that response (or
\* the fallback, when the handler's own code failed) whether or not the
\* record was written, and a stream that reached its end is complete and is
\* never truncated by its audit.
C16_AuditFailureHarmless ==
    /\ \A i \in 1..Len(audits) : audits[i].outcome \in {"saved", "null"}
    /\ (pc = "done" /\ ~request.stream /\ result.kind = "response") =>
          /\ httpStatus = 200
          /\ httpBody.kind = "json"
          /\ FallbackAnswered \/ httpBody.response = result.response
    /\ \A i \in 1..Len(audits) :
          audits[i].request_type = "chat_completion_streaming" =>
              /\ pc = "done"
              /\ forwarded = audits[i].response.chunks
              /\ forwarded[Len(forwarded)] = DoneEvent

C16_Witness ==
    /\ pc = "done"
    /\ Len(audits) = 1
    /\ audits[1].outcome = "null"
    /\ httpStatus = 200
    /\ httpBody.kind = "json"
    /\ httpBody.response = result.response


ClientErrorSignalled ==
    result.kind = "http_exc" /\ result.exc.status_code = 400

\* The adapter is past its search for the last user message (l.303-312).
SearchDone ==
    /\ adapter
    /\ thread # 0
    /\ pc \notin {"idle", "handler", "gen_start", "a_thread", "a_find"}

\* The content of the last message with role=user, whatever follows it.
RECURSIVE LastUserContent(_)
LastUserContent(msgs) ==
    IF msgs[Len(msgs)].role = "user" THEN msgs[Len(msgs)].content
    ELSE LastUserContent(SubSeq(msgs, 1, Len(msgs) - 1))

\* C17: the adapter signals the client error exactly when no message has
\* role=user; when some message has role=user, whatever its content (the
\* empty string included), no client error is signalled and the content
\* posted to the backend is that of the last role=user message.
C17_ClientErrorIffNoUser ==
    SearchDone =>
        /\ ClientErrorSignalled <=> ~HasUser(request)
        /\ HasUser(request) =>
              \A i \in 1..Len(calls) :
                  calls[i].op = "post_message" =>
                      calls[i].content = Some(LastUserContent(request.messages))


\* C19: all chunks of one stream, the error chunk included, carry the same
\* id, the same created timestamp and the request's model, fixed when the
\* generator starts and unchanged while the clock advances.
C19_SharedIdCreatedModel ==
    \A i \in 1..Len(forwarded) :
        ~forwarded[i].sentinel =>
            /\ gen.request_id # 0
            /\ forwarded[i].body[1].id = gen.request_id
            /\ forwarded[i].body[1].created = gen.created
            /\ forwarded[i].body[1].model = request.model
            /\ \A j \in 1..Len(forwarded) :
                  ~forwarded[j].sentinel =>
                      /\ forwarded[j].body[1].id = forwarded[i].body[1].id
                      /\ forwarded[j].body[1].created = forwarded[i].body[1].created

C19_Witness ==
    /\ StreamCompleted
    /\ result.kind = "response"
    /\ Len(forwarded) >= 5
    /\ now > gen.created + 1

\* Number of whitespace-separated words: the positions where a word starts.
WordStarts(s) ==
    Cardinality({i \in 1..Len(s) :
                    s[i] \notin Whitespace /\ (i = 1 \/ s[i - 1] \in Whitespace)})

\* The handler answered with a response the adapter built from the thread's
\* messages.
AnsweredFromContent ==
    /\ pc = "done"
    /\ ~request.stream
    /\ httpBody.kind = "json"
    /\ httpBody.response.id.prefix = "chatcmpl-"

\* C20: for a non-streaming request answered from assistant content,
\* prompt_tokens is the number of whitespace-separated words of the last user
\* message only and completion_tokens that of the returned answer text; for
\* user text "2+2?" and answer "4" the usage is 1, 1 and 2.
C20_UsageCountsWords ==
    AnsweredFromContent =>
        /\ httpBody.response.usage.prompt_tokens =
              WordStarts(LastUserContent(request.messages))
        /\ httpBody.response.usage.completion_tokens =
              WordStarts(httpBody.response.choices[1].message.content)
        /\ (LastUserContent(request.messages) = <<"2+2?">>
            /\ httpBody.response.choices[1].message.content = <<"4">>) =>
              httpBody.response.usage =
                  [prompt_tokens |-> 1, completion_tokens |-> 1, total_tokens |-> 2]

C20_Witness ==
    /\ AnsweredFromContent
    /\ Len(request.messages) = 2
    /\ request.messages[1].content = <<"a", " ", "b">>
    /\ LastUserContent(request.messages) = <<"2+2?">>
    /\ httpBody.response.choices[1].message.content = <<"4">>
    /\ httpBody.response.usage.total_tokens = 2


(***************************************************************************)
(* The serving runtime: uvicorn.run(app) serves every connection as a task *)
(* of ONE asyncio event loop.  A task gives the loop's thread up only at   *)
(* an await.  FoundryAgentAdapter.create_chat_completion is an async def   *)
(* that calls the synchronous Azure SDK (threads.create, messages.create,  *)
(* runs.create_and_process, messages.list) with no await in between, so    *)
(* from threads.create to the return of messages.list the calling task     *)
(* holds the loop's thread (running = t).  The streaming generator awaits  *)
(* asyncio.sleep after every word chunk, which frees the loop.             *)
(***************************************************************************)
mainVars ==
    <<pc, request, calls, thread, last_user_message, run, messages, result,
      gen, collected_chunks, collected_content, forwarded, httpStatus,
      httpBody, audits, uuids, now>>

TaskKinds == {"chat", "stream", "health"}

HealthPayloadByAdapter == [status |-> IF adapter THEN "healthy" ELSE "starting"]

HealthPayload == [status |-> "healthy"]

ThreadOfFirst(t) == 1

ThreadOf(t) == tasks[t].thread

LogCall(t, op, thread_id) == [task |-> t, op |-> op, thread_id |-> thread_id]

\* a connection is accepted and its task is scheduled
Arrive(t, kind) ==
    /\ UNCHANGED <<adapter, mainVars>>
    /\ tasks[t].kind = "none"
    /\ tasks' = [tasks EXCEPT ![t] = [NoTask EXCEPT !.kind = kind, !.pc = "ready"]]
    /\ UNCHANGED <<running, backend_threads, backend_log, audit_log>>

\* GET /health: return {"status": "healthy"}
TaskHealth(t) ==
    /\ UNCHANGED <<adapter, mainVars>>
    /\ running = 0
    /\ tasks[t].kind = "health"
    /\ tasks[t].pc = "ready"
    /\ tasks' = [tasks EXCEPT ![t].pc = "answered",
                              ![t].answer = [status |-> 200, body |-> HealthPayload]]
    /\ UNCHANGED <<running, backend_threads, backend_log, audit_log>>

\* POST /v1/chat/completions with adapter = None: HTTPException(500)
TaskNotInitialized(t) ==
    /\ UNCHANGED <<adapter, mainVars>>
    /\ running = 0
    /\ tasks[t].kind \in {"chat", "stream"}
    /\ tasks[t].pc = "ready"
    /\ ~adapter
    /\ tasks' = [tasks EXCEPT ![t].pc = "answered",
                              ![t].answer = [status |-> 500, body |-> NotInitDetail]]
    /\ UNCHANGED <<running, backend_threads, backend_log, audit_log>>

\* thread = self.project.agents.threads.create(): the task takes the loop's
\* thread and keeps it until the adapter returns
TaskCreateThread(t) ==
    /\ UNCHANGED <<adapter, mainVars>>
    /\ running = 0
    /\ tasks[t].kind \in {"chat", "stream"}
    /\ tasks[t].pc = "ready"
    /\ adapter
    /\ running' = t
    /\ backend_threads' = backend_threads + 1
    /\ tasks' = [tasks EXCEPT ![t].pc = "post", ![t].thread = backend_threads + 1]
    /\ backend_log' = Append(backend_log, LogCall(t, "create_thread", backend_threads + 1))
    /\ UNCHANGED audit_log

\* self.project.agents.messages.create(thread_id=thread.id, ...)
TaskPost(t) ==
    /\ UNCHANGED <<adapter, mainVars>>
    /\ running = t
    /\ tasks[t].pc = "post"
    /\ backend_log' = Append(backend_log, LogCall(t, "post_message", ThreadOf(t)))
    /\ tasks' = [tasks EXCEPT ![t].pc = "run"]
    /\ UNCHANGED <<running, backend_threads, audit_log>>

\* self.project.agents.runs.create_and_process(thread_id=thread.id, ...) is
\* entered: the call is synchronous
TaskRunStart(t) ==
    /\ UNCHANGED <<adapter, mainVars>>
    /\ running = t
    /\ tasks[t].pc = "run"
    /\ backend_log' = Append(backend_log, LogCall(t, "run_agent", ThreadOf(t)))
    /\ tasks' = [tasks EXCEPT ![t].pc = "in_run"]
    /\ UNCHANGED <<running, backend_threads, audit_log>>

\* the backend finishes the run and create_and_process returns
TaskRunReturns(t) ==
    /\ UNCHANGED <<adapter, mainVars>>
    /\ running = t
    /\ tasks[t].pc = "in_run"
    /\ tasks' = [tasks EXCEPT ![t].pc = "list"]
    /\ UNCHANGED <<running, backend_threads, backend_log, audit_log>>

\* the backend never finishes the run: create_and_process never returns (no
\* deadline is enforced), and the caller never leaves it
TaskRunHangs(t) ==
    /\ UNCHANGED <<adapter, mainVars>>
    /\ running = t
    /\ tasks[t].pc = "in_run"
    /\ tasks' = [tasks EXCEPT ![t].pc = "hung"]
    /\ UNCHANGED <<running, backend_threads, backend_log, audit_log>>

\* self.project.agents.messages.list(thread_id=thread.id, ...) and the return
\* of the adapter.  Non-streaming: the handler audits and answers.  Streaming:
\* the generator starts to yield, chunks words of the answer remain.
TaskList(t, chunks) ==
    /\ UNCHANGED <<adapter, mainVars>>
    /\ running = t
    /\ tasks[t].pc = "list"
    /\ running' = 0
    /\ backend_log' = Append(backend_log, LogCall(t, "list_messages", ThreadOf(t)))
    /\ IF tasks[t].kind = "chat"
       THEN /\ tasks' = [tasks EXCEPT ![t].pc = "answered",
                                      ![t].answer = [status |-> 200,
                                                     body |-> "chat.completion",
                                                     from_thread |-> ThreadOf(t)]]
            /\ audit_log' = Append(audit_log,
                                   [task |-> t, request_type |-> "chat_completion_non_streaming"])
       ELSE /\ tasks' = [tasks EXCEPT ![t].pc = "emitting", ![t].left = chunks,
                                      ![t].answer = [status |-> 200,
                                                     body |-> "event-stream",
                                                     from_thread |-> ThreadOf(t)]]
            /\ UNCHANGED audit_log
    /\ UNCHANGED backend_threads

\* yield of one word chunk, then await asyncio.sleep(0.05)
TaskEmit(t) ==
    /\ UNCHANGED <<adapter, mainVars>>
    /\ running = 0
    /\ tasks[t].pc = "emitting"
    /\ tasks[t].left > 0
    /\ tasks' = [tasks EXCEPT ![t].left = @ - 1, ![t].sent = @ + 1]
    /\ UNCHANGED <<running, backend_threads, backend_log, audit_log>>

\* final chunk, [DONE] and the wrapper's audit record
TaskStreamEnd(t) ==
    /\ UNCHANGED <<adapter, mainVars>>
    /\ running = 0
    /\ tasks[t].pc = "emitting"
    /\ tasks[t].left = 0
    /\ tasks' = [tasks EXCEPT ![t].pc = "answered"]
    /\ audit_log' = Append(audit_log,
                           [task |-> t, request_type |-> "chat_completion_streaming"])
    /\ UNCHANGED <<running, backend_threads, backend_log>>

\* the steps of task t that the event loop and a responsive backend take
TaskStep(t) ==
    \/ TaskHealth(t)
    \/ TaskNotInitialized(t)
    \/ TaskCreateThread(t)
    \/ TaskPost(t)
    \/ TaskRunStart(t)
    \/ TaskRunReturns(t)
    \/ \E chunks \in 0..MaxChunks : TaskList(t, chunks)
    \/ TaskEmit(t)
    \/ TaskStreamEnd(t)

LoopNext ==
    \/ startup_event
    \/ \E t \in Tasks, kind \in TaskKinds : Arrive(t, kind)
    \/ \E t \in Tasks : TaskHealth(t)
    \/ \E t \in Tasks : TaskNotInitialized(t)
    \/ \E t \in Tasks : TaskCreateThread(t)
    \/ \E t \in Tasks : TaskPost(t)
    \/ \E t \in Tasks : TaskRunStart(t)
    \/ \E t \in Tasks : TaskRunReturns(t)
    \/ \E t \in Tasks : TaskRunHangs(t)
    \/ \E t \in Tasks, chunks \in 0..MaxChunks : TaskList(t, chunks)
    \/ \E t \in Tasks : TaskEmit(t)
    \/ \E t \in Tasks : TaskStreamEnd(t)

\* the event loop runs every task that is ready to run, and a run that the
\* backend finishes does return; nothing forces a connection to arrive
LoopSpec ==
    /\ Init
    /\ [][LoopNext]_vars
    /\ \A t \in Tasks : WF_vars(TaskStep(t))


(***************************************************************************)
(* Claims about concurrent requests and the health probe (LoopSpec).       *)
(***************************************************************************)
CreatedBy(t) ==
    {backend_log[i].thread_id : i \in {j \in DOMAIN backend_log :
        backend_log[j].op = "create_thread" /\ backend_log[j].task = t}}

BackendAnswered(t) ==
    /\ tasks[t].kind \in {"chat", "stream"}
    /\ tasks[t].pc = "answered"
    /\ tasks[t].answer.status = 200

\* C14: a request that is ready to be served is eventually answered, unless
\* its own backend run is the one that never returns; a hung run of another
\* request does not keep it from being answered.
C14_OthersEventuallyAnswered ==
    \A t \in Tasks :
        (tasks[t].pc = "ready") ~> (tasks[t].pc \in {"answered", "hung"})

\* C15: under every interleaving each request that reaches the backend
\* creates one thread of its own, no two requests create or use the same
\* thread, every post, run and list call goes to the thread its own request
\* created, and an answer is built from the request's own thread only.
C15_OwnThreadOnly ==
    /\ \A i, j \in DOMAIN backend_log :
          (/\ i # j
           /\ backend_log[i].op = "create_thread"
           /\ backend_log[j].op = "create_thread")
          => /\ backend_log[i].thread_id # backend_log[j].thread_id
             /\ backend_log[i].task # backend_log[j].task
    /\ \A i \in DOMAIN backend_log :
          backend_log[i].op # "create_thread"
          => backend_log[i].thread_id \in CreatedBy(backend_log[i].task)
    /\ \A t \in Tasks :
          (tasks[t].pc \in {"emitting", "answered"} /\ tasks[t].answer.status = 200
              /\ tasks[t].kind # "health")
          => tasks[t].answer.from_thread \in CreatedBy(t)

C15_Witness ==
    \E t, u \in Tasks :
        /\ t # u
        /\ BackendAnswered(t)
        /\ BackendAnswered(u)
        /\ tasks[t].answer.from_thread # tasks[u].answer.from_thread

\* C18: every answer to GET /health is HTTP 200 with the payload
\* {status: "healthy"}, whatever the state of the adapter and of the other
\* requests, and no backend call and no audit record belongs to a health
\* request.
C18_HealthStatic ==
    \A t \in Tasks :
        tasks[t].kind = "health"
        => /\ tasks[t].pc = "answered"
              => tasks[t].answer = [status |-> 200, body |-> [status |-> "healthy"]]
           /\ \A i \in DOMAIN backend_log : backend_log[i].task # t
           /\ \A i \in DOMAIN audit_log : audit_log[i].task # t
           /\ tasks[t].thread = 0

C18_WitnessUninitialized ==
    \E t, u \in Tasks :
        /\ tasks[t].kind = "health"
        /\ tasks[t].pc = "answered"
        /\ ~adapter
        /\ tasks[u].kind \in {"chat", "stream"}
        /\ tasks[u].pc = "answered"
        /\ tasks[u].answer.status = 500


\* The operations of the backend calls made so far, in order.
CallOps == [i \in DOMAIN calls |-> calls[i].op]

BackendOrder == <<"create_thread", "post_message", "run_agent", "list_messages">>

\* C21: within one adapter call the backend operations are a prefix of
\* create thread, post message, run agent, list messages (each at most once,
\* in that order), the message is posted to the thread that was created, the
\* messages are listed only after the run returned with a terminal status,
\* and never when that status is "failed".
C21_BackendCallOrder ==
    /\ Len(calls) <= Len(BackendOrder)
    /\ CallOps = SubSeq(BackendOrder, 1, Len(calls))
    /\ \A i \in DOMAIN calls :
          i > 1 => (calls[i].thread_id = calls[1].thread_id /\ calls[1].thread_id # 0)
    /\ (\E i \in DOMAIN calls : calls[i].op = "list_messages")
          => run.status \in RunStatuses \ {"failed"}
    /\ run.status = "failed"
          => \A i \in DOMAIN calls : calls[i].op # "list_messages"

C21_Witness ==
    /\ pc = "done"
    /\ CallOps = BackendOrder
    /\ run.status = "completed"
    /\ messages # <<>>


\* The events create_streaming_response yields when it runs to its end, in
\* the order it yields them.
EmulatorOutput ==
    IF result.kind = "response"
    THEN <<SSE(FirstChunk(gen.request_id, gen.created, request.model))>>
         \o [i \in 1..Len(Words) |->
                SSE(WordChunk(gen.request_id, gen.created, request.model, Words, i))]
         \o <<SSE(FinalChunk(gen.request_id, gen.created, request.model)), DoneEvent>>
    ELSE <<SSE(ErrorChunk(gen.request_id, gen.created, request.model,
                          ExcStr(result.exc))), DoneEvent>>

RECURSIVE FragmentsOf(_)
\* The delta contents the chunks of a sequence of events carry, appended in
\* order (the terminator and chunks without content carry none).
FragmentsOf(events) ==
    IF events = <<>> THEN <<>>
    ELSE LET e == Head(events)
             c == IF e.sentinel THEN None ELSE e.body[1].choices[1].delta.content
         IN (IF c = None THEN <<>> ELSE c[1]) \o FragmentsOf(Tail(events))

StreamingRecords ==
    {i \in DOMAIN audits : audits[i].request_type = "chat_completion_streaming"}

\* C22: for a stream=true request consumed to its end the transport received
\* the emulator's events unchanged and in order; save_audit_data is called
\* for the stream only once the terminator has been forwarded; there is
\* exactly one record, tagged chat_completion_streaming, whose chunks are the
\* forwarded events in order and whose full_content is the concatenation of
\* the content fragments forwarded.
C22_StreamAuditAfterForwarding ==
    /\ StreamingRecords # {}
          => /\ forwarded # <<>>
             /\ forwarded[Len(forwarded)] = DoneEvent
             /\ pc \in {"done", "aborted"}
    /\ StreamCompleted
          => /\ forwarded = EmulatorOutput
             /\ Len(audits) = 1
             /\ audits[1].request_type = "chat_completion_streaming"
             /\ audits[1].response.chunks = forwarded
             /\ audits[1].response.chunk_count = Len(forwarded)
             /\ audits[1].response.full_content = FragmentsOf(forwarded)

C22_Witness ==
    /\ StreamCompleted
    /\ result.kind = "response"
    /\ Len(forwarded) >= 5
    /\ StreamingRecords = {1}
    /\ audits[1].response.full_content # <<>>


StreamingErrorRecords ==
    {i \in DOMAIN audits : audits[i].request_type = "chat_completion_streaming_error"}

\* C23: an exception raised in the streaming wrapper after some events were
\* forwarded leaves exactly one audit record, tagged
\* chat_completion_streaming_error, that holds the exception's text and the
\* events collected (and forwarded) until then; no chat_completion_streaming
\* record exists for the request; and the same exception leaves the wrapper,
\* so that the response is cut short.  Such a record is never written on any
\* other path.
C23_MidStreamErrorAudited ==
    /\ (request.stream /\ pc = "aborted")
          => /\ forwarded # <<>>
             /\ forwarded[Len(forwarded)] # DoneEvent
             /\ Len(audits) = 1
             /\ StreamingErrorRecords = {1}
             /\ StreamingRecords = {}
             /\ audits[1].response.chunks_before_error = forwarded
             /\ httpBody.kind = "truncated-stream"
             /\ httpBody.raised = audits[1].response.error
    /\ StreamingErrorRecords # {}
          => (request.stream /\ pc = "aborted")

C23_Witness ==
    /\ request.stream
    /\ pc = "aborted"
    /\ Len(forwarded) >= 2
    /\ StreamingErrorRecords = {1}
    /\ httpBody.kind = "truncated-stream"


ErrorRecords ==
    {i \in DOMAIN audits : audits[i].request_type = "chat_completion_error"}

FallbackReturned ==
    /\ httpBody.kind = "json"
    /\ httpBody.response.id.prefix = "chatcmpl-failsafe-"

\* C24: whatever the backend does, the adapter ends by returning a response
\* or by raising an HTTPException; a non-streaming request whose adapter call
\* raised is answered with that exception's status and detail, without the
\* fallback response and without any audit record; the fallback response and
\* the chat_completion_error record exist only where the adapter had returned
\* a response and the handler's own code failed afterwards.
C24_BackendNeverCausesFallback ==
    /\ result.kind \in {"none", "response", "http_exc"}
    /\ (~request.stream /\ pc = "done" /\ result.kind = "http_exc")
          => /\ httpStatus = result.exc.status_code
             /\ httpBody = [kind |-> "error", detail |-> result.exc.detail]
             /\ audits = <<>>
    /\ (ErrorRecords # {} \/ FallbackReturned)
          => (~request.stream /\ result.kind = "response")

C24_Witness ==
    /\ ~request.stream
    /\ pc = "done"
    /\ result.kind = "http_exc"
    /\ run.status = "failed"
    /\ httpStatus = 500
    /\ audits = <<>>

====
